---------------------------- MODULE Spec2Model ----------------------------
(* Semantic column classifier, phone and company decomposers and the     *)
(* table orchestrator of ut-abhi/tresata_assignment, as a state machine. *)
(*                                                                         *)
(* Text is modelled at the level the code works at:                       *)
(*  - a company string is a sequence of pieces, a piece being whitespace  *)
(*    or a word [stem, cap, trail]: stem is the lower-cased spelling, cap *)
(*    says the original spelling has upper-case letters, trail is the     *)
(*    trailing punctuation;                                                *)
(*  - a phone string is a sequence of one-character strings;              *)
(*  - a cell of a classified column is the record of the answers the      *)
(*    regular expressions and the external libraries (phonenumbers,       *)
(*    dateutil) give on it.                                               *)
EXTENDS Integers, Sequences, FiniteSets, TLC

VARIABLES
    files,              \* the reference files found at start-up
    countries,          \* SemanticClassifier.countries
    legal_suffixes,     \* SemanticClassifier.legal_suffixes
    cp_legal_suffixes,  \* CompanyParser.legal_suffixes
    built,              \* how the two constructors that read the files ended
    company,            \* the company decomposer's call under observation
    phone,              \* the phone decomposer's call under observation
    df,                 \* the table read from the input file
    draws,              \* per column, the rows sample(random_state=42) leaves out
    pred,               \* the column classification call under observation
    orch                \* the orchestrator run under observation

vars == <<files, countries, legal_suffixes, cp_legal_suffixes, built, company,
          phone, df, draws, pred, orch>>

refs == <<files, countries, legal_suffixes, cp_legal_suffixes, built>>

-----------------------------------------------------------------------------
(* Bounds *)

MaxTokens == 3      \* words of a generated company string
MaxFill == 10       \* filler digits of a generated phone string
MaxCells == 4       \* cells of a generated short column
MaxTail == 2        \* cells that follow the long run of a generated long column
MaxColumns == 3     \* columns of a generated table

-----------------------------------------------------------------------------
(* Reference data *)

\* A reference file: absent, present with its normalised lines, or present
\* and not readable (open or the iteration over its lines raises an error
\* that is no FileNotFoundError: PermissionError, UnicodeDecodeError, ...).
AbsentFile == [present |-> FALSE, readable |-> FALSE, lines |-> {}]

PresentFile(ls) == [present |-> TRUE, readable |-> TRUE, lines |-> ls]

UnreadableFile == [present |-> TRUE, readable |-> FALSE, lines |-> {}]

Unreadable(f) == f.present /\ ~f.readable

DEFAULT_COUNTRIES ==
    {"india", "usa", "united states", "uk", "united kingdom", "china",
     "japan", "germany", "france", "canada", "australia"}

CLASSIFIER_DEFAULT_SUFFIXES ==
    {"ltd", "limited", "inc", "incorporated", "corp", "corporation",
     "llc", "gmbh", "ag", "pvt", "private", "co", "kg", "plc"}

PARSER_DEFAULT_SUFFIXES ==
    {"ltd", "limited", "inc", "incorporated", "corp", "corporation",
     "llc", "gmbh", "ag", "pvt", "private", "co", "kg", "plc",
     "sa", "nv", "bv", "oy", "ab", "as", "spa", "srl", "sl", "slu"}

\* SemanticClassifier.load_reference_data, the countries half.
LoadCountries(f) == IF f.present THEN f.lines ELSE DEFAULT_COUNTRIES

\* SemanticClassifier.load_reference_data, the legal-suffix half.
LoadClassifierSuffixes(f) ==
    IF f.present THEN f.lines ELSE CLASSIFIER_DEFAULT_SUFFIXES

\* CompanyParser.load_legal_suffixes
load_legal_suffixes(f) == IF f.present THEN f.lines ELSE PARSER_DEFAULT_SUFFIXES

\* The start-up configurations explored.
CountryFiles == {AbsentFile, PresentFile({"india", "mexico"})}

LegalFiles == {AbsentFile, PresentFile({"ltd", "gmbh", "kg"})}

-----------------------------------------------------------------------------
(* Company strings *)

Space == [stem |-> " ", cap |-> FALSE, trail |-> ""]

Word(s, c, t) == [stem |-> s, cap |-> c, trail |-> t]

IsSpace(p) == p.stem = " "

\* str.lower(), piece by piece
LowerPiece(p) == [p EXCEPT !.cap = FALSE]

Lower(s) == [i \in 1..Len(s) |-> LowerPiece(s[i])]

\* word.rstrip('.,;:')
STRIP_CHARS == {".", ",", ";", ":"}

RStripPunct(w) == IF w.trail \in STRIP_CHARS THEN [w EXCEPT !.trail = ""] ELSE w

RECURSIVE LStrip(_)
LStrip(s) == IF s # <<>> /\ IsSpace(Head(s)) THEN LStrip(Tail(s)) ELSE s

RECURSIVE RStrip(_)
RStrip(s) ==
    IF s # <<>> /\ IsSpace(s[Len(s)]) THEN RStrip(SubSeq(s, 1, Len(s) - 1)) ELSE s

\* str.strip()
Strip(s) == LStrip(RStrip(s))

\* str.split(): the words between runs of whitespace
Split(s) == SelectSeq(s, LAMBDA p : ~IsSpace(p))

\* ' '.join(parts)
RECURSIVE Join(_)
Join(parts) ==
    IF parts = <<>> THEN <<>>
    ELSE IF Len(parts) = 1 THEN parts
    ELSE <<Head(parts), Space>> \o Join(Tail(parts))

\* `word in self.legal_suffixes` for a lower-cased, right-stripped word
InSuffixes(w, suffixes) == w.trail = "" /\ ~w.cap /\ w.stem \in suffixes

\* `word in ['&', 'and']`
IsConjunction(w) == w.trail = "" /\ ~w.cap /\ w.stem \in {"&", "and"}

\* The backward loop of CompanyParser.parse: st is (legal_parts, name_parts,
\* found_legal) before index i is visited; the result is the state at loop exit.
RECURSIVE ParseLoop(_, _, _, _)
ParseLoop(words, i, st, suffixes) ==
    IF i = 0 THEN st
    ELSE LET word == RStripPunct(LowerPiece(words[i])) IN
         IF ~st.found_legal /\ InSuffixes(word, suffixes)
         THEN ParseLoop(words, i - 1,
                        [st EXCEPT !.legal_parts = <<word>> \o @,
                                   !.found_legal = TRUE], suffixes)
         ELSE IF st.found_legal
         THEN IF InSuffixes(word, suffixes) \/ IsConjunction(word)
              THEN ParseLoop(words, i - 1,
                             [st EXCEPT !.legal_parts = <<word>> \o @], suffixes)
              ELSE [st EXCEPT !.name_parts = <<words[i]>> \o @]    \* break
         ELSE ParseLoop(words, i - 1,
                        [st EXCEPT !.name_parts = <<words[i]>> \o @], suffixes)

\* An argument of parse: a string, or the missing value NaN.
Text(s) == [isna |-> FALSE, text |-> s]

NaN == [isna |-> TRUE, text |-> <<>>]

\* CompanyParser.parse as it would be with the .lower() of line 68 forgotten.
CompanyParse_NameNotLowered(arg, suffixes) ==
    IF arg.isna \/ arg.text = <<>> THEN <<<<>>, <<>>>>
    ELSE LET company_name == Strip(arg.text) IN
         IF company_name = <<>> THEN <<<<>>, <<>>>>
         ELSE LET words == Split(company_name)
                  st    == ParseLoop(words, Len(words),
                                     [legal_parts |-> <<>>, name_parts |-> <<>>,
                                      found_legal |-> FALSE], suffixes)
                  name  == Strip(Join(st.name_parts))
                  legal == Lower(Strip(Join(st.legal_parts)))
              IN IF legal = <<>> THEN <<Lower(company_name), legal>>
                                 ELSE <<name, legal>>

\* CompanyParser.parse: (name, legal)
CompanyParse(arg, suffixes) ==
    IF arg.isna \/ arg.text = <<>> THEN <<<<>>, <<>>>>
    ELSE LET company_name == Strip(arg.text) IN
         IF company_name = <<>> THEN <<<<>>, <<>>>>
         ELSE LET words == Split(company_name)
                  st    == ParseLoop(words, Len(words),
                                     [legal_parts |-> <<>>, name_parts |-> <<>>,
                                      found_legal |-> FALSE], suffixes)
                  name  == Lower(Strip(Join(st.name_parts)))
                  legal == Lower(Strip(Join(st.legal_parts)))
              IN IF legal = <<>> THEN <<Lower(company_name), legal>>
                                 ELSE <<name, legal>>

\* The words company strings are generated from.
Enno      == Word("enno", TRUE, "")
Roggemann == Word("roggemann", TRUE, "")
GmbH      == Word("gmbh", TRUE, "")
Amp       == Word("&", FALSE, "")
CoDot     == Word("co", TRUE, ".")
KG        == Word("kg", TRUE, "")
LtdBang   == Word("ltd", FALSE, "!")

Vocabulary == {Enno, Roggemann, GmbH, Amp, CoDot, KG, LtdBang}

WordSeqs == UNION {[1..n -> Vocabulary] : n \in 0..MaxTokens}

\* The same words with a leading blank, doubled blanks and a trailing blank.
RECURSIVE Padded(_)
Padded(ws) == IF ws = <<>> THEN <<Space>> ELSE <<Space, Head(ws), Space>> \o Padded(Tail(ws))

Scenario1 == <<Word("tresata", TRUE, ""), Space, Word("pvt", FALSE, ""), Space,
               Word("ltd", FALSE, ".")>>

Scenario2 == Join(<<Enno, Roggemann, GmbH, Amp, CoDot, KG>>)

CompanyArgs ==
    {Text(Join(ws)) : ws \in WordSeqs} \cup {Text(Padded(ws)) : ws \in WordSeqs}
        \cup {Text(Scenario1), Text(Scenario2), NaN}

NoResult == <<<<>>, <<>>>>

CompanyIdle == [phase |-> "idle", arg |-> NaN, out |-> NoResult, again |-> NoResult]

\* parse(company) as the orchestrator calls it on a cell.
ParseCompany ==
    /\ company.phase = "idle"
    /\ \E arg \in CompanyArgs :
          company' = [phase |-> "parsed", arg |-> arg,
                      out |-> CompanyParse(arg, cp_legal_suffixes),
                      again |-> NoResult]
    /\ UNCHANGED <<refs, phone, df, draws, pred, orch>>

\* parse applied to the name it returned.
ReparseCompanyName ==
    /\ company.phase = "parsed"
    /\ company' = [company EXCEPT
                     !.phase = "reparsed",
                     !.again = CompanyParse(Text(company.out[1]), cp_legal_suffixes)]
    /\ UNCHANGED <<refs, phone, df, draws, pred, orch>>

-----------------------------------------------------------------------------
(* Phone strings *)

WHITESPACE == {" "}

SEPARATORS == WHITESPACE \cup {"-", "(", ")", "."}

RECURSIVE LStripWs(_)
LStripWs(s) == IF s # <<>> /\ Head(s) \in WHITESPACE THEN LStripWs(Tail(s)) ELSE s

RECURSIVE RStripWs(_)
RStripWs(s) ==
    IF s # <<>> /\ s[Len(s)] \in WHITESPACE
    THEN RStripWs(SubSeq(s, 1, Len(s) - 1)) ELSE s

\* str.strip() on a phone string
StripWs(s) == LStripWs(RStripWs(s))

\* re.sub(r'[\s\-\(\)\.]', '', s)
RemoveSeparators(s) == SelectSeq(s, LAMBDA c : c \notin SEPARATORS)

\* s.startswith(prefix)
StartsWith(s, prefix) ==
    Len(s) >= Len(prefix) /\ SubSeq(s, 1, Len(prefix)) = prefix

\* s[n:]
DropFirst(s, n) == SubSeq(s, n + 1, Len(s))

\* What phonenumbers.parse followed by is_valid_number answers for one region
\* argument: parse raises, the number is not valid, or it is valid with the
\* region code and national number the library reports.
Raises == [kind |-> "raise", region |-> "", national |-> <<>>]

Invalid == [kind |-> "invalid", region |-> "", national |-> <<>>]

Valid(region, national) == [kind |-> "valid", region |-> region, national |-> national]

\* PhoneParser.COUNTRY_MAP.get(code, code)
COUNTRY_MAP(code) ==
    CASE code = "IN" -> "India"
      [] code = "US" -> "US"
      [] code = "GB" -> "UK"
      [] code = "CA" -> "Canada"
      [] code = "AU" -> "Australia"
      [] code = "DE" -> "Germany"
      [] code = "FR" -> "France"
      [] code = "CN" -> "China"
      [] code = "JP" -> "Japan"
      [] OTHER -> code

PhoneResult(country, number) == [country |-> country, number |-> number]

DEFAULT_REGIONS == <<"US", "IN", "GB">>

\* The loop over the default regions, from the i-th on: the first valid answer,
\* or Raises when there is none.
RECURSIVE FirstValidRegion(_, _)
FirstValidRegion(lib, i) ==
    IF i > Len(DEFAULT_REGIONS) THEN Raises
    ELSE IF lib[DEFAULT_REGIONS[i]].kind = "valid" THEN lib[DEFAULT_REGIONS[i]]
    ELSE FirstValidRegion(lib, i + 1)

\* The manual fallback with `len(cleaned) == 11` written `len(cleaned) >= 10`.
ManualFallback_USAnyLength(cleaned) ==
    IF StartsWith(cleaned, <<"9", "1">>) /\ Len(cleaned) >= 10
    THEN PhoneResult("India", DropFirst(cleaned, 2))
    ELSE IF StartsWith(cleaned, <<"1">>) /\ Len(cleaned) >= 10
    THEN PhoneResult("US", DropFirst(cleaned, 1))
    ELSE IF StartsWith(cleaned, <<"4", "4">>) /\ Len(cleaned) >= 10
    THEN PhoneResult("UK", DropFirst(cleaned, 2))
    ELSE PhoneResult("", cleaned)

\* PhoneParser.parse, the manual parsing fallback.
ManualFallback(cleaned) ==
    IF StartsWith(cleaned, <<"9", "1">>) /\ Len(cleaned) >= 10
    THEN PhoneResult("India", DropFirst(cleaned, 2))
    ELSE IF StartsWith(cleaned, <<"1">>) /\ Len(cleaned) = 11
    THEN PhoneResult("US", DropFirst(cleaned, 1))
    ELSE IF StartsWith(cleaned, <<"4", "4">>) /\ Len(cleaned) >= 10
    THEN PhoneResult("UK", DropFirst(cleaned, 2))
    ELSE PhoneResult("", cleaned)

\* PhoneParser.parse: arg is the cell, lib the library's answers on the
\* stripped string for the region arguments None, "US", "IN" and "GB".
PhoneParse(arg, lib) ==
    IF arg.isna \/ arg.text = <<>> THEN PhoneResult("", <<>>)
    ELSE LET phone_str == StripWs(arg.text) IN
         IF phone_str = <<>> THEN PhoneResult("", <<>>)
         ELSE IF lib["None"].kind = "valid"
         THEN PhoneResult(COUNTRY_MAP(lib["None"].region), lib["None"].national)
         ELSE LET parsed == FirstValidRegion(lib, 1) IN
              IF parsed.kind = "valid"
              THEN PhoneResult(COUNTRY_MAP(parsed.region), parsed.national)
              ELSE ManualFallback(RemoveSeparators(phone_str))

\* Generated phone strings: a prefix, a separator, a run of filler digits.
Fill(k) == [i \in 1..k |-> "5"]

PhonePrefixes ==
    {<<>>, <<"9", "1">>, <<"1">>, <<"4", "4">>, <<"9">>, <<"+", "9", "1">>}

PhoneSeparators == {<<>>, <<" ">>, <<"-">>}

Scenario3 == <<"+", "9", "1", " ", "9", "8", "7", "6", "5", "4", "3", "2", "1", "0">>

Scenario4 == <<"4", "8", "5", "3", "8", "5", "9", "5", "9", "0">>

PhoneTexts ==
    {p \o sep \o Fill(k) : p \in PhonePrefixes, sep \in PhoneSeparators, k \in 0..MaxFill}
        \cup {<<" ">> \o p \o Fill(MaxFill) \o <<" ">> : p \in PhonePrefixes}
        \cup {Scenario3, Scenario4}

Digits(s) == SelectSeq(s, LAMBDA c : c \notin SEPARATORS \cup {"+"})

\* The answers the library can give on a string: without a leading "+" a parse
\* with no region raises; a valid number has at least seven digits.
LibAnswers(text) ==
    LET s     == StripWs(text)
        valid == IF Len(Digits(s)) >= 7
                 THEN {Valid("IN", DropFirst(Digits(s), 2)), Valid("BR", Digits(s))}
                 ELSE {}
        any   == {Raises, Invalid} \cup valid
    IN {l \in [{"None", "US", "IN", "GB"} -> any] :
            StartsWith(s, <<"+">>) \/ l["None"] = Raises}

PhoneArgs == {Text(t) : t \in PhoneTexts} \cup {NaN}

PhoneIdle == [phase |-> "idle", arg |-> NaN,
              lib |-> [r \in {"None", "US", "IN", "GB"} |-> Raises],
              out |-> PhoneResult("", <<>>)]

\* parse(phone) as the orchestrator calls it on a cell.
ParsePhone ==
    /\ phone.phase = "idle"
    /\ \E arg \in PhoneArgs : \E lib \in LibAnswers(arg.text) :
          phone' = [phase |-> "parsed", arg |-> arg, lib |-> lib,
                    out |-> PhoneParse(arg, lib)]
    /\ UNCHANGED <<refs, company, df, draws, pred, orch>>

-----------------------------------------------------------------------------
(* Cells *)

\* What the recognizers read of str(value) for each kind of cell:
\*   key        value.strip().lower()
\*   tokens     value.lower().split()
\*   indicator  one of the company indicators is a substring of value.lower()
\*   upper      value[0].isupper()
\*   length     len(value.strip())
\*   plus, ndigits, others
\*              the string left by re.sub(r'[\s\-\(\)\.]', '', value): whether
\*              it starts with "+", how many digits it has, whether it has any
\*              other character
\*   lib        phonenumbers.parse(value, None) and is_valid_number: "valid",
\*              "invalid" or "raise"
\*   date_pat   one of the five date patterns matches
\*   strict     date_parser.parse(value, fuzzy=False) returns
\*   fuzzy      date_parser.parse(value, fuzzy=True) returns
Cell(key, tokens, indicator, upper, length, plus, ndigits, others, lib, date_pat, strict, fuzzy) ==
    [key |-> key, tokens |-> tokens, indicator |-> indicator, upper |-> upper,
     length |-> length, plus |-> plus, ndigits |-> ndigits, others |-> others,
     lib |-> lib, date_pat |-> date_pat, strict |-> strict, fuzzy |-> fuzzy]

MISSING == "NaN"

Features(kind) ==
    CASE kind = "4853859590" ->
           Cell("4853859590", {"4853859590"}, FALSE, FALSE, 10,
                FALSE, 10, FALSE, "raise", FALSE, FALSE, FALSE)
      [] kind = "+14155552671" ->
           Cell("+14155552671", {"+14155552671"}, FALSE, FALSE, 12,
                TRUE, 11, FALSE, "valid", FALSE, FALSE, FALSE)
      [] kind = "+0000000" ->
           Cell("+0000000", {"+0000000"}, FALSE, FALSE, 8,
                TRUE, 7, FALSE, "raise", FALSE, FALSE, FALSE)
      [] kind = "2023-01-15" ->
           Cell("2023-01-15", {"2023-01-15"}, FALSE, FALSE, 10,
                FALSE, 8, FALSE, "raise", TRUE, TRUE, TRUE)
      [] kind = "01/15/2023" ->
           Cell("01/15/2023", {"01/15/2023"}, FALSE, FALSE, 10,
                FALSE, 8, TRUE, "raise", TRUE, TRUE, TRUE)
      [] kind = "12 foo 2023" ->
           Cell("12 foo 2023", {"12", "foo", "2023"}, FALSE, FALSE, 11,
                FALSE, 6, TRUE, "raise", TRUE, FALSE, TRUE)
      [] kind = "March" ->
           Cell("march", {"march"}, FALSE, TRUE, 5,
                FALSE, 0, TRUE, "raise", FALSE, TRUE, TRUE)
      [] kind = "India" ->
           Cell("india", {"india"}, FALSE, TRUE, 5,
                FALSE, 0, TRUE, "raise", FALSE, FALSE, FALSE)
      [] kind = "Mexico" ->
           Cell("mexico", {"mexico"}, TRUE, TRUE, 6,
                FALSE, 0, TRUE, "raise", FALSE, FALSE, FALSE)
      [] kind = "Tresata pvt ltd." ->
           Cell("tresata pvt ltd.", {"tresata", "pvt", "ltd."}, TRUE, TRUE, 16,
                FALSE, 0, TRUE, "raise", FALSE, FALSE, FALSE)
      [] kind = "Alice" ->
           Cell("alice", {"alice"}, FALSE, TRUE, 5,
                FALSE, 0, TRUE, "raise", FALSE, FALSE, FALSE)
      [] kind = "hello" ->
           Cell("hello", {"hello"}, FALSE, FALSE, 5,
                FALSE, 0, TRUE, "raise", FALSE, FALSE, FALSE)
      [] kind = MISSING ->      \* str(nan), were it ever scored
           Cell("nan", {"nan"}, FALSE, FALSE, 3,
                FALSE, 0, TRUE, "raise", FALSE, FALSE, FALSE)

CoreKinds == {MISSING, "4853859590", "2023-01-15", "01/15/2023", "India",
              "Mexico", "Tresata pvt ltd.", "hello"}

RareKinds == {"+14155552671", "+0000000", "12 foo 2023", "March", "Alice"}

TailKinds == {MISSING, "4853859590", "Tresata pvt ltd.", "hello"}

-----------------------------------------------------------------------------
(* Value recognizers *)

\* re.match(r'^\+?\d{7,15}$', cleaned)
PhonePattern(c) == ~c.others /\ c.ndigits >= 7 /\ c.ndigits <= 15

\* len(cleaned)
CleanedLen(c) == c.ndigits + (IF c.plus THEN 1 ELSE 0)

\* SemanticClassifier.is_phone_number
is_phone_number(c) ==
    IF c.length = 0 THEN FALSE
    ELSE IF PhonePattern(c)
    THEN IF c.lib = "raise"
         THEN CleanedLen(c) >= 7 /\ CleanedLen(c) <= 15 /\ ~c.plus /\ ~c.others
         ELSE c.lib = "valid"
    ELSE FALSE

\* SemanticClassifier.is_date: a matching pattern whose strict parse raises
\* passes on to the fuzzy parse.
is_date(c) ==
    IF c.length = 0 THEN FALSE
    ELSE IF c.date_pat /\ c.strict THEN TRUE
    ELSE c.fuzzy

\* SemanticClassifier.is_country
is_country(c) == c.key \in countries

COMPANY_INDICATORS == {"bank", "corp", "inc", "ltd", "llc", "gmbh", "ag", "co"}

\* SemanticClassifier.is_company_name
is_company_name(c) ==
    IF c.length < 2 THEN FALSE
    ELSE IF c.tokens \cap legal_suffixes # {} THEN TRUE
    ELSE IF c.indicator THEN TRUE
    ELSE IF c.upper /\ ~is_date(c) /\ ~is_phone_number(c)
    THEN ~is_country(c)
    ELSE FALSE

-----------------------------------------------------------------------------
(* Column classifier *)

SAMPLE_CAP == 1000

\* The keys of `scores`, in insertion order.
LABELS == <<"Phone Number", "Company Name", "Country", "Date", "Other">>

LabelSet == {LABELS[i] : i \in 1..Len(LABELS)}

\* A column is a sequence of runs: n consecutive cells of one kind.
Run(kind, n) == [kind |-> kind, n |-> n]

RECURSIVE Rows(_)
Rows(cells) == IF cells = <<>> THEN 0 ELSE Head(cells).n + Rows(Tail(cells))

\* dropna() with the missing cells kept.
dropna_KeepsMissing(cells) == cells

\* df[column_name].dropna()
dropna(cells) == SelectSeq(cells, LAMBDA r : r.kind # MISSING)

\* The ways to leave out Rows(data) - size rows: how many of each run.
Draws(data, size) ==
    LET d == Rows(data) - size
    IN {drop \in [1..Len(data) -> 0..d] :
          /\ \A i \in 1..Len(data) : drop[i] <= data[i].n
          /\ Rows([i \in 1..Len(data) |-> Run(data[i].kind, drop[i])]) = d}

\* column_data.sample(n=sample_size, random_state=42), by what it leaves out;
\* the rows come back in a shuffled order, which the scoring does not read.
Sampled(data, drop) ==
    SelectSeq([i \in 1..Len(data) |-> Run(data[i].kind, data[i].n - drop[i])],
              LAMBDA r : r.n > 0)

\* The if/elif chain with the date test before the phone test.
Bucket_DateFirst(c) ==
    IF is_date(c) THEN "Date"
    ELSE IF is_phone_number(c) THEN "Phone Number"
    ELSE IF is_country(c) THEN "Country"
    ELSE IF is_company_name(c) THEN "Company Name"
    ELSE "Other"

\* The if/elif chain of classify_column: the score a value adds to.
Bucket(c) ==
    IF is_phone_number(c) THEN "Phone Number"
    ELSE IF is_date(c) THEN "Date"
    ELSE IF is_country(c) THEN "Country"
    ELSE IF is_company_name(c) THEN "Company Name"
    ELSE "Other"

RECURSIVE Count(_, _)
Count(sample, label) ==
    IF sample = <<>> THEN 0
    ELSE (IF Bucket(Features(Head(sample).kind)) = label THEN Head(sample).n ELSE 0)
            + Count(Tail(sample), label)

\* The scoring loop without its final else.
Scores_OtherNotCounted(sample) ==
    [l \in LabelSet |-> IF l = "Other" THEN 0 ELSE Count(sample, l)]

\* The scoring loop of classify_column.
Scores(sample) == [l \in LabelSet |-> Count(sample, l)]

\* A fraction num/den; the code holds it as a float.
Frac(num, den) == <<num, den>>

\* {k: v / total for k, v in scores.items()}
Probabilities(scores, total) == [l \in LabelSet |-> Frac(scores[l], total)]

\* max(...) keeping the last of the largest instead of the first.
RECURSIVE ArgMax_LastWins(_, _, _)
ArgMax_LastWins(probabilities, i, best) ==
    IF i > Len(LABELS) THEN best
    ELSE ArgMax_LastWins(probabilities, i + 1,
           IF probabilities[LABELS[i]][1] >= probabilities[best][1]
           THEN LABELS[i] ELSE best)

\* max(probabilities, key=probabilities.get) from the i-th key on: the first
\* key in insertion order with the largest value (all share one denominator).
RECURSIVE ArgMax(_, _, _)
ArgMax(probabilities, i, best) ==
    IF i > Len(LABELS) THEN best
    ELSE ArgMax(probabilities, i + 1,
           IF probabilities[LABELS[i]][1] > probabilities[best][1]
           THEN LABELS[i] ELSE best)

NoProbabilities == <<>>

Outcome(raised, sample, scores, probabilities, classification, confidence) ==
    [raised |-> raised, sample |-> sample, scores |-> scores,
     probabilities |-> probabilities, classification |-> classification,
     confidence |-> confidence]

NoScores == [l \in LabelSet |-> 0]

EarlyOther == Outcome(FALSE, <<>>, NoScores, NoProbabilities, "Other", Frac(0, 1))

ColumnNames(table) == {table[i].name : i \in 1..Len(table)}

ColumnCells(table, name) ==
    table[CHOOSE i \in 1..Len(table) : table[i].name = name].cells

\* classify_column with the default result in place of the ValueError.
classify_column_AbsentDefaults(table, column_name, drop) ==
    IF column_name \notin ColumnNames(table) THEN EarlyOther
    ELSE LET column_data == dropna(ColumnCells(table, column_name)) IN
         IF Rows(column_data) = 0 THEN EarlyOther
         ELSE LET sample == IF Rows(column_data) > SAMPLE_CAP
                            THEN Sampled(column_data, drop) ELSE column_data
                  scores == Scores(sample)
                  probabilities == Probabilities(scores, Rows(sample))
                  classification == ArgMax(probabilities, 2, LABELS[1])
              IN Outcome(FALSE, sample, scores, probabilities,
                         classification, probabilities[classification])

\* SemanticClassifier.classify_column; drop is what the sample leaves out when
\* the column has more than SAMPLE_CAP values.
classify_column(table, column_name, drop) ==
    IF column_name \notin ColumnNames(table)
    THEN Outcome(TRUE, <<>>, NoScores, NoProbabilities, "", Frac(0, 1))
    ELSE LET column_data == dropna(ColumnCells(table, column_name)) IN
         IF Rows(column_data) = 0 THEN EarlyOther
         ELSE LET sample_size == IF Rows(column_data) < SAMPLE_CAP
                                 THEN Rows(column_data) ELSE SAMPLE_CAP
                  sample == IF Rows(column_data) > sample_size
                            THEN Sampled(column_data, drop) ELSE column_data
                  total  == Rows(sample)
              IN IF total = 0 THEN EarlyOther
                 ELSE LET scores == Scores(sample)
                          probabilities == Probabilities(scores, total)
                          classification == ArgMax(probabilities, 2, LABELS[1])
                      IN Outcome(FALSE, sample, scores, probabilities,
                                 classification, probabilities[classification])

\* The draws sample(random_state=42) can make for a column: the one recorded
\* for it, or any when the column has not been sampled yet; <<>> when the
\* column is not sampled at all.
NoDraw == <<>>

\* The draws of a sample that is not seeded: any, whatever was drawn before.
DrawsFor_Unseeded(table, name) ==
    IF name \notin ColumnNames(table) THEN {NoDraw}
    ELSE LET data == dropna(ColumnCells(table, name)) IN
         IF Rows(data) <= SAMPLE_CAP THEN {NoDraw}
         ELSE Draws(data, SAMPLE_CAP)

DrawsFor(table, name) ==
    IF name \notin ColumnNames(table) THEN {NoDraw}
    ELSE LET data == dropna(ColumnCells(table, name)) IN
         IF Rows(data) <= SAMPLE_CAP THEN {NoDraw}
         ELSE IF draws[name] # NoDraw THEN {draws[name]}
         ELSE Draws(data, SAMPLE_CAP)

\* The column names a caller asks for: those of the table and one it lacks.
RequestNames == {"A", "Zip"}

\* pd.read_csv raised (EmptyDataError on a file without columns): no table
\* reaches classify_column.
ReadFailed == Outcome(TRUE, <<>>, NoScores, NoProbabilities, "", Frac(0, 1))

\* pd.read_csv followed by classify_column, as every classification entry
\* point has them in one try block.
ReadAndClassify(table, column_name, drop) ==
    IF Len(table) = 0 THEN ReadFailed
    ELSE classify_column(table, column_name, drop)

\* str(e) of the exception the entry point caught.
ErrorOf(table, r) ==
    IF ~r.raised THEN ""
    ELSE IF Len(table) = 0 THEN "No columns to parse from file"
    ELSE "Column not found in dataframe"

\* classification.lower().replace(' ', '')
PrintedLabel(classification) ==
    CASE classification = "Phone Number" -> "phonenumber"
      [] classification = "Company Name" -> "companyname"
      [] classification = "Country" -> "country"
      [] classification = "Date" -> "date"
      [] classification = "Other" -> "other"

\* What a classification entry point hands its caller: success is exit
\* status 0 in predict.py and "success" in the server's answer, printed is
\* what predict.py wrote to standard output.
Prediction(phase, entry, column, success, error, printed, result, again) ==
    [phase |-> phase, entry |-> entry, column |-> column, success |-> success,
     error |-> error, printed |-> printed, result |-> result, again |-> again]

PredIdle == Prediction("idle", "", "", FALSE, "", "", EarlyOther, EarlyOther)

Redrawn(column_name, drop) ==
    IF column_name \in DOMAIN draws
    THEN [draws EXCEPT ![column_name] = drop] ELSE draws

\* MCPServer.column_prediction
ColumnPrediction ==
    /\ pred.phase = "idle"
    /\ \E column_name \in RequestNames : \E drop \in DrawsFor(df, column_name) :
       \E r \in {ReadAndClassify(df, column_name, drop)} :
         /\ pred' = Prediction("done", "mcp_server.py", column_name, ~r.raised,
                               ErrorOf(df, r), "", r, EarlyOther)
         /\ draws' = Redrawn(column_name, drop)
    /\ UNCHANGED <<refs, company, phone, df, orch>>

\* main of predict.py
PredictMain ==
    /\ pred.phase = "idle"
    /\ \E column_name \in RequestNames : \E drop \in DrawsFor(df, column_name) :
       \E r \in {ReadAndClassify(df, column_name, drop)} :
         /\ pred' = Prediction("done", "predict.py", column_name, ~r.raised,
                               ErrorOf(df, r),
                               IF r.raised THEN "" ELSE PrintedLabel(r.classification),
                               r, EarlyOther)
         /\ draws' = Redrawn(column_name, drop)
    /\ UNCHANGED <<refs, company, phone, df, orch>>

\* The same entry point called again on the same file and column.
ClassifyAgain ==
    /\ pred.phase = "done"
    /\ \E drop \in DrawsFor(df, pred.column) :
         /\ pred' = [pred EXCEPT !.phase = "twice",
                                 !.again = ReadAndClassify(df, pred.column, drop)]
         /\ draws' = Redrawn(pred.column, drop)
    /\ UNCHANGED <<refs, company, phone, df, orch>>

\* Generated columns.
ShortColumns ==
    UNION {[1..n -> {Run(k, 1) : k \in CoreKinds}] : n \in 0..MaxCells}

RareColumns ==
    {<<Run(k, 1)>> : k \in RareKinds} \cup {<<Run(k, 1), Run("hello", 1)>> : k \in RareKinds}

Tails == UNION {[1..n -> {Run(k, 1) : k \in TailKinds}] : n \in 0..MaxTail}

LongColumns ==
    {<<Run(k, n)>> \o t :
        k \in CoreKinds, n \in {SAMPLE_CAP - 1, SAMPLE_CAP, SAMPLE_CAP + 1}, t \in Tails}

\* Scenario 5: seven values, five of them phone numbers.
Scenario5 == <<Run("4853859590", 3), Run("hello", 1), Run("+14155552671", 2), Run("India", 1)>>

Columns == ShortColumns \cup RareColumns \cup LongColumns \cup {Scenario5}

Column(name, cells) == [name |-> name, cells |-> cells]

-----------------------------------------------------------------------------
(* Orchestrator *)

\* Python's None for a column that was not selected.
NONE == "<None>"

\* SemanticClassifier.classify_all_columns: one result per column, in column
\* order; dr gives each column's draw.
classify_all_columns(table, dr) ==
    [i \in 1..Len(table) |-> classify_column(table, table[i].name, dr[table[i].name])]

\* a < b for two confidences; the floats count/total compare as the fractions do.
FracLess(a, b) == a[1] * b[2] < b[1] * a[2]

\* The (column, confidence) pairs of the columns classified as label, in
\* column order.
RECURSIVE Labelled(_, _, _, _)
Labelled(table, classifications, label, i) ==
    IF i > Len(table) THEN <<>>
    ELSE (IF classifications[i].classification = label
          THEN <<<<table[i].name, classifications[i].confidence>>>> ELSE <<>>)
            \o Labelled(table, classifications, label, i + 1)

\* A descending sort that puts a pair before the earlier pairs it ties with.
RECURSIVE InsertDesc_TiesReversed(_, _)
InsertDesc_TiesReversed(sorted, x) ==
    IF sorted = <<>> THEN <<x>>
    ELSE IF FracLess(x[2], Head(sorted)[2])
    THEN <<Head(sorted)>> \o InsertDesc_TiesReversed(Tail(sorted), x)
    ELSE <<x>> \o sorted

\* One step of list.sort(key=lambda x: x[1], reverse=True), which is stable:
\* x, later in the list than all of sorted, goes behind every pair that is not
\* smaller.
RECURSIVE InsertDesc(_, _)
InsertDesc(sorted, x) ==
    IF sorted = <<>> THEN <<x>>
    ELSE IF FracLess(Head(sorted)[2], x[2]) THEN <<x>> \o sorted
    ELSE <<Head(sorted)>> \o InsertDesc(Tail(sorted), x)

RECURSIVE SortDesc(_, _)
SortDesc(sorted, rest) ==
    IF rest = <<>> THEN sorted
    ELSE SortDesc(InsertDesc(sorted, Head(rest)), Tail(rest))

\* The column with the highest confidence, None for an empty list.
Pick(columns) ==
    IF columns = <<>> THEN NONE ELSE SortDesc(<<>>, columns)[1][1]

\* What an output column holds: the values of an input column, or one of the
\* lists the decomposers produced from the selected column.
Original(name) == [src |-> "original", of |-> name]

Derived(list, name) == [src |-> list, of |-> name]

OutColumn(name, data) == [name |-> name, data |-> data]

Names(t) == {t[i].name : i \in 1..Len(t)}

\* df.copy()
Copy(table) == [i \in 1..Len(table) |-> OutColumn(table[i].name, Original(table[i].name))]

\* output_df.rename(columns={old: new})
Rename(t, old, new) ==
    [i \in 1..Len(t) |-> IF t[i].name = old THEN [t[i] EXCEPT !.name = new] ELSE t[i]]

\* output_df[name] = data
Assign(t, name, data) ==
    IF name \in Names(t)
    THEN [i \in 1..Len(t) |-> IF t[i].name = name THEN OutColumn(name, data) ELSE t[i]]
    ELSE Append(t, OutColumn(name, data))

\* The loop that appends the other columns to column_order.
RECURSIVE KeepOthers(_, _, _)
KeepOthers(column_order, t, i) ==
    IF i > Len(t) THEN column_order
    ELSE KeepOthers(IF \E j \in 1..Len(column_order) : column_order[j] = t[i].name
                    THEN column_order ELSE Append(column_order, t[i].name),
                    t, i + 1)

\* output_df[column_order] for labels that all exist: per label, the columns
\* that carry it.
RECURSIVE Select(_, _)
Select(t, column_order) ==
    IF column_order = <<>> THEN <<>>
    ELSE SelectSeq(t, LAMBDA c : c.name = Head(column_order))
            \o Select(t, Tail(column_order))

\* df.empty
Empty(table) == Len(table) = 0 \/ Rows(table[1].cells) = 0

Run_(error, phone_column, company_column, written, output) ==
    [error |-> error, phone_column |-> phone_column,
     company_column |-> company_column, written |-> written, output |-> output]

\* The phone half of the output dataframe: the selected column renamed, the
\* Country and Number columns set.
WithPhone(t, phone_column) ==
    IF phone_column # NONE
    THEN Assign(Assign(IF phone_column # "PhoneNumber"
                       THEN Rename(t, phone_column, "PhoneNumber") ELSE t,
                       "Country", Derived("phone_countries", phone_column)),
                "Number", Derived("phone_numbers", phone_column))
    ELSE t

\* The company half: the selected column renamed, the Name and Legal columns set.
WithCompany(t, company_column) ==
    IF company_column # NONE
    THEN Assign(Assign(IF company_column # "CompanyName"
                       THEN Rename(t, company_column, "CompanyName") ELSE t,
                       "Name", Derived("company_names", company_column)),
                "Legal", Derived("company_legals", company_column))
    ELSE t

\* column_order: the parsed fields first, the other columns behind them.
ColumnOrder(t, phone_column, company_column) ==
    KeepOthers((IF phone_column # NONE \/ "PhoneNumber" \in Names(t)
                THEN <<"PhoneNumber", "Country", "Number">> ELSE <<>>)
               \o (IF company_column # NONE \/ "CompanyName" \in Names(t)
                   THEN <<"CompanyName", "Name", "Legal">> ELSE <<>>),
               t, 1)

\* output_df = output_df[column_order]; to_csv: a label that is no column
\* raises KeyError, which the handler catches, and nothing is written.
Reordered(t, column_order, phone_column, company_column) ==
    IF \E j \in 1..Len(column_order) : column_order[j] \notin Names(t)
    THEN Run_("KeyError", phone_column, company_column, FALSE, <<>>)
    ELSE Run_("", phone_column, company_column, TRUE, Select(t, column_order))

\* The draws of all the columns of a table.
AllDraws(table) ==
    {dr \in [ColumnNames(table) -> UNION {DrawsFor(table, n) : n \in ColumnNames(table)}] :
        \A n \in ColumnNames(table) : dr[n] \in DrawsFor(table, n)}

OrchIdle == [phase |-> "idle", entry |-> "", ok |-> FALSE,
             run |-> Run_("", NONE, NONE, FALSE, <<>>)]

\* The body shared by main in parser.py and MCPServer.parser, from the
\* emptiness test to the write of output.csv. Each \E over a one-element set
\* names a local variable of the handler.
Orchestrate(entry) ==
    /\ orch.phase = "idle"
    /\ IF Empty(df)
       THEN /\ orch' = [phase |-> "done", entry |-> entry, ok |-> FALSE,
                        run |-> Run_(IF Len(df) = 0 THEN "No columns to parse from file"
                                     ELSE "Input file is empty",
                                     NONE, NONE, FALSE, <<>>)]
            /\ draws' = draws
       ELSE \E dr \in AllDraws(df) :
            \E classifications \in {classify_all_columns(df, dr)} :
            \E phone_column \in {Pick(Labelled(df, classifications, "Phone Number", 1))} :
            \E company_column \in {Pick(Labelled(df, classifications, "Company Name", 1))} :
            \E output_df \in {WithCompany(WithPhone(Copy(df), phone_column), company_column)} :
            \E column_order \in {ColumnOrder(output_df, phone_column, company_column)} :
            \E r \in {Reordered(output_df, column_order, phone_column, company_column)} :
               /\ orch' = [phase |-> "done", entry |-> entry, ok |-> r.written, run |-> r]
               /\ draws' = dr
    /\ UNCHANGED <<refs, company, phone, df, pred>>

\* main of parser.py: exit status 0 with output.csv written, 1 otherwise.
ParserMain == Orchestrate("parser.py")

\* MCPServer.parser: success with output.csv written, an error otherwise.
ServerParser == Orchestrate("mcp_server.py")

\* Generated tables: distinct column names, as read_csv makes them, and two
\* rows in every column.
TableNames == {"PhoneNumber", "CompanyName", "Country", "Legal", "Zip"}

TableCells ==
    {<<Run("4853859590", 2)>>,
     <<Run("4853859590", 1), Run("hello", 1)>>,
     <<Run("Tresata pvt ltd.", 2)>>,
     <<Run("Tresata pvt ltd.", 1), Run("hello", 1)>>,
     <<Run("hello", 2)>>}

NameSeqs ==
    UNION {{ns \in [1..n -> TableNames] : \A i, j \in 1..n : i # j => ns[i] # ns[j]} :
              n \in 0..MaxColumns}

\* The table with the column names ns and the cells cs, column by column.
Table(ns, cs) == [i \in 1..Len(ns) |-> Column(ns[i], cs[i])]

\* Tables with columns and no data rows.
ZeroRowTables ==
    {<<Column("Zip", <<>>)>>, <<Column("PhoneNumber", <<>>), Column("Zip", <<>>)>>}

-----------------------------------------------------------------------------
(* Start-up *)

\* The outcome of SemanticClassifier() and of CompanyParser(): "no" before
\* the constructor ran, "ok" when it returned, "raised" when it did not.
Built(classifier, company_parser) ==
    [classifier |-> classifier, company_parser |-> company_parser]

\* The state after both constructors returned.
Startup ==
    /\ files \in [countries : CountryFiles, legal : LegalFiles]
    /\ countries = LoadCountries(files.countries)
    /\ legal_suffixes = LoadClassifierSuffixes(files.legal)
    /\ cp_legal_suffixes = load_legal_suffixes(files.legal)
    /\ built = Built("ok", "ok")

NoTable == <<>>

Undrawn(table) == [n \in ColumnNames(table) |-> NoDraw]

Init ==
    /\ Startup
    /\ files = [countries |-> AbsentFile, legal |-> AbsentFile]
    /\ company = CompanyIdle
    /\ phone = PhoneIdle
    /\ \/ \E ns \in NameSeqs : \E cs \in [1..Len(ns) -> TableCells] : df = Table(ns, cs)
       \/ df \in ZeroRowTables
    /\ draws = Undrawn(df)
    /\ pred = PredIdle
    /\ orch = OrchIdle

Next ==
    \/ ParserMain
    \/ ServerParser

Spec == Init /\ [][Next]_vars

InitCompany ==
    /\ Startup
    /\ company = CompanyIdle
    /\ phone = PhoneIdle
    /\ df = NoTable
    /\ draws = Undrawn(df)
    /\ pred = PredIdle
    /\ orch = OrchIdle

NextCompany ==
    \/ ParseCompany
    \/ ReparseCompanyName

SpecCompany == InitCompany /\ [][NextCompany]_vars

InitPhone == InitCompany

NextPhone == ParsePhone

SpecPhone == InitPhone /\ [][NextPhone]_vars

InitClassify ==
    /\ Startup
    /\ files.countries.present = files.legal.present
    /\ company = CompanyIdle
    /\ phone = PhoneIdle
    /\ df \in {<<Column("A", cells)>> : cells \in Columns}
    /\ draws = Undrawn(df)
    /\ pred = PredIdle
    /\ orch = OrchIdle

NextClassify == ColumnPrediction

SpecClassify == InitClassify /\ [][NextClassify]_vars

-----------------------------------------------------------------------------
(* Construction *)

\* The reference files a start-up can find.
StartupCountryFiles ==
    {AbsentFile, UnreadableFile} \cup {PresentFile(ls) : ls \in SUBSET {"india", "mexico"}}

StartupLegalFiles ==
    {AbsentFile, UnreadableFile} \cup {PresentFile(ls) : ls \in SUBSET {"ltd", "gmbh", "sa"}}

\* SemanticClassifier.__init__: both sets start empty, then
\* load_reference_data reads Countries.txt and after it legal.txt; only
\* FileNotFoundError is handled, any other error leaves the constructor.
ConstructClassifier ==
    /\ built.classifier = "no"
    /\ IF Unreadable(files.countries)
       THEN /\ countries' = {}
            /\ legal_suffixes' = {}
            /\ built' = [built EXCEPT !.classifier = "raised"]
       ELSE IF Unreadable(files.legal)
       THEN /\ countries' = LoadCountries(files.countries)
            /\ legal_suffixes' = {}
            /\ built' = [built EXCEPT !.classifier = "raised"]
       ELSE /\ countries' = LoadCountries(files.countries)
            /\ legal_suffixes' = LoadClassifierSuffixes(files.legal)
            /\ built' = [built EXCEPT !.classifier = "ok"]
    /\ UNCHANGED <<files, cp_legal_suffixes, company, phone, df, draws, pred, orch>>

\* CompanyParser.__init__: the set starts empty, then load_legal_suffixes
\* reads legal.txt; only FileNotFoundError is handled.
ConstructCompanyParser ==
    /\ built.company_parser = "no"
    /\ IF Unreadable(files.legal)
       THEN /\ cp_legal_suffixes' = {}
            /\ built' = [built EXCEPT !.company_parser = "raised"]
       ELSE /\ cp_legal_suffixes' = load_legal_suffixes(files.legal)
            /\ built' = [built EXCEPT !.company_parser = "ok"]
    /\ UNCHANGED <<files, countries, legal_suffixes, company, phone, df, draws, pred, orch>>

InitStartup ==
    /\ files \in [countries : StartupCountryFiles, legal : StartupLegalFiles]
    /\ countries = {}
    /\ legal_suffixes = {}
    /\ cp_legal_suffixes = {}
    /\ built = Built("no", "no")
    /\ company = CompanyIdle
    /\ phone = PhoneIdle
    /\ df = NoTable
    /\ draws = Undrawn(df)
    /\ pred = PredIdle
    /\ orch = OrchIdle

NextStartup ==
    \/ ConstructClassifier
    \/ ConstructCompanyParser

SpecStartup == InitStartup /\ [][NextStartup]_vars

-----------------------------------------------------------------------------
(* A session: calls of the entry points one after the other *)

\* The tables of a session: a file without columns, header-only files, a
\* short table and one whose column A is sampled.
SessionTables ==
    {NoTable,
     <<Column("A", <<>>)>>,
     <<Column("PhoneNumber", <<>>), Column("A", <<>>)>>,
     <<Column("A", <<Run("4853859590", 1), Run(MISSING, 1)>>),
       Column("B", <<Run("Tresata pvt ltd.", 2)>>)>>,
     <<Column("A", <<Run("4853859590", SAMPLE_CAP), Run("hello", 1)>>),
       Column("B", <<Run("Tresata pvt ltd.", SAMPLE_CAP + 1)>>)>>}

\* No call is under way.
Quiet ==
    /\ company.phase = "idle"
    /\ phone.phase = "idle"
    /\ pred.phase = "idle"
    /\ orch.phase = "idle"

CallParseCompany == Quiet /\ ParseCompany

CallParsePhone == Quiet /\ ParsePhone

CallColumnPrediction == Quiet /\ ColumnPrediction

CallPredictMain == Quiet /\ PredictMain

CallParserMain == Quiet /\ ParserMain

CallServerParser == Quiet /\ ServerParser

\* The call under way returns to its caller; the objects built at start-up
\* and the input file stay.
Return ==
    /\ ~Quiet
    /\ company' = CompanyIdle
    /\ phone' = PhoneIdle
    /\ pred' = PredIdle
    /\ orch' = OrchIdle
    /\ UNCHANGED <<refs, df, draws>>

InitSession ==
    /\ Startup
    /\ files = [countries |-> AbsentFile, legal |-> AbsentFile]
    /\ company = CompanyIdle
    /\ phone = PhoneIdle
    /\ df \in SessionTables
    /\ draws = Undrawn(df)
    /\ pred = PredIdle
    /\ orch = OrchIdle

NextSession ==
    \/ CallParseCompany
    \/ ReparseCompanyName
    \/ CallParsePhone
    \/ CallColumnPrediction
    \/ CallPredictMain
    \/ ClassifyAgain
    \/ CallParserMain
    \/ CallServerParser
    \/ Return

SpecSession == InitSession /\ [][NextSession]_vars

-----------------------------------------------------------------------------
(* Company decomposer: properties *)

\* The words of the call's trimmed argument, and each as the loop compares it.
ArgWords == Split(Strip(company.arg.text))

Compared(w) == RStripPunct(LowerPiece(w))

IsSuffixWord(w) == InSuffixes(Compared(w), cp_legal_suffixes)

\* Index of the rightmost legal-suffix word of ws, 0 when there is none.
RightmostSuffix(ws) ==
    LET S == {i \in 1..Len(ws) : IsSuffixWord(ws[i])}
    IN IF S = {} THEN 0 ELSE CHOOSE i \in S : \A j \in S : j <= i

\* Index of the first word left of position j that is neither a legal suffix
\* nor a conjunction, 0 when there is none.
SpanEnd(ws, j) ==
    LET S == {i \in 1..(j - 1) : ~IsSuffixWord(ws[i]) /\ ~IsConjunction(Compared(ws[i]))}
    IN IF S = {} THEN 0 ELSE CHOOSE i \in S : \A k \in S : k <= i

Parsed == company.phase # "idle" /\ ~company.arg.isna

\* C1: when the leftward scan from the rightmost legal suffix meets the first
\* word that is neither a suffix nor a conjunction, that word and every word
\* to its left are the leading words of the base name, in original order.
C1_BaseNameKeepsWordsLeftOfSpan ==
    Parsed =>
        LET j == RightmostSuffix(ArgWords)
            k == IF j = 0 THEN 0 ELSE SpanEnd(ArgWords, j)
            nameWords == Split(company.out[1])
        IN k > 0 =>
             /\ Len(nameWords) >= k
             /\ SubSeq(nameWords, 1, k) = Lower(SubSeq(ArgWords, 1, k))

\* C6: when the last word is not a legal suffix (so every legal-suffix word
\* has a non-suffix word to its right), the legal phrase is empty and the
\* base name is the whole trimmed, lower-cased input.
C6_MidStringSuffixNotDetected ==
    Parsed /\ ArgWords # <<>> /\ ~IsSuffixWord(ArgWords[Len(ArgWords)]) =>
        company.out = <<Lower(Strip(company.arg.text)), <<>>>>

\* The returned name holds no legal-suffix word.
NameHasNoSuffixWord ==
    \A i \in 1..Len(Split(company.out[1])) : ~IsSuffixWord(Split(company.out[1])[i])

\* C7: decompose is idempotent on the base name: when the returned name holds
\* no legal-suffix word, decomposing the name returns (name, "").
C7_IdempotentOnBaseName ==
    company.phase = "reparsed" /\ NameHasNoSuffixWord =>
        company.again = <<company.out[1], <<>>>>

\* C7 witness: a name split from a detected legal phrase has been decomposed again.
C7_Witness ==
    /\ company.phase = "reparsed"
    /\ NameHasNoSuffixWord
    /\ company.out[2] # <<>>
    /\ Len(Split(company.out[1])) >= 1
    /\ company.out[1] # Strip(company.arg.text)

-----------------------------------------------------------------------------
(* Phone decomposer: properties *)

\* Every structured parse attempt failed or gave an invalid number.
AllStructuredFailed == \A r \in {"None", "US", "IN", "GB"} : phone.lib[r].kind # "valid"

PhoneCleaned == RemoveSeparators(StripWs(phone.arg.text))

PhoneFellBack ==
    /\ phone.phase = "parsed"
    /\ ~phone.arg.isna
    /\ StripWs(phone.arg.text) # <<>>
    /\ AllStructuredFailed

\* C8: when every structured attempt fails, the result is ("India", cleaned[2:])
\* for a "91" prefix and length >= 10, else ("US", cleaned[1:]) for a "1"
\* prefix and length 11, else ("UK", cleaned[2:]) for a "44" prefix and length
\* >= 10, else ("", cleaned); "4853859590" comes back unchanged with no country.
C8_ManualFallbackRules ==
    /\ PhoneFellBack =>
         LET c == PhoneCleaned IN
         phone.out =
            IF StartsWith(c, <<"9", "1">>) /\ Len(c) >= 10
            THEN [country |-> "India", number |-> DropFirst(c, 2)]
            ELSE IF StartsWith(c, <<"1">>) /\ Len(c) = 11
            THEN [country |-> "US", number |-> DropFirst(c, 1)]
            ELSE IF StartsWith(c, <<"4", "4">>) /\ Len(c) >= 10
            THEN [country |-> "UK", number |-> DropFirst(c, 2)]
            ELSE [country |-> "", number |-> c]
    /\ PhoneFellBack /\ phone.arg.text = Scenario4 =>
         phone.out = [country |-> "", number |-> Scenario4]

\* C8 witness: a string with a separator and a "1" prefix of cleaned length 11
\* went through the manual fallback after invalid structured answers.
C8_Witness ==
    /\ PhoneFellBack
    /\ phone.lib["US"].kind = "invalid"
    /\ PhoneCleaned # StripWs(phone.arg.text)
    /\ phone.out.country = "US"
    /\ Len(phone.out.number) = 10

-----------------------------------------------------------------------------
(* Column classifier: properties *)

AllKinds == CoreKinds \cup RareKinds

\* The rows of the runs of cells whose kind is in kinds.
RECURSIVE RowsOf(_, _)
RowsOf(cells, kinds) ==
    IF cells = <<>> THEN 0
    ELSE (IF Head(cells).kind \in kinds THEN Head(cells).n ELSE 0)
            + RowsOf(Tail(cells), kinds)

Classified == pred.phase = "done" /\ pred.success

\* The column the call classified and the number of its non-missing values.
AskedCells == ColumnCells(df, pred.column)

NonMissing == Rows(AskedCells) - RowsOf(AskedCells, {MISSING})

PhoneKinds == {k \in AllKinds : is_phone_number(Features(k))}

DateKinds == {k \in AllKinds : is_date(Features(k))}

CountryKinds == {k \in AllKinds : is_country(Features(k))}

CompanyKinds == {k \in AllKinds : is_company_name(Features(k))}

\* C2: every sampled value is counted once, under the first label in the order
\* Phone Number, Date, Country, Company Name whose recognizer accepts it, and
\* under Other when none does, whatever the later recognizers answer.
C2_FirstMatchWins ==
    Classified =>
        LET sample == pred.result.sample
            scores == pred.result.scores
        IN /\ scores["Phone Number"] = RowsOf(sample, PhoneKinds)
           /\ scores["Date"] = RowsOf(sample, DateKinds \ PhoneKinds)
           /\ scores["Country"] =
                RowsOf(sample, CountryKinds \ (PhoneKinds \cup DateKinds))
           /\ scores["Company Name"] =
                RowsOf(sample, CompanyKinds \ (PhoneKinds \cup DateKinds \cup CountryKinds))
           /\ scores["Other"] =
                RowsOf(sample, AllKinds \ (PhoneKinds \cup DateKinds
                                             \cup CountryKinds \cup CompanyKinds))
           /\ scores["Phone Number"] + scores["Date"] + scores["Country"]
                + scores["Company Name"] + scores["Other"] = Rows(sample)

\* C2 witness: the sample held a value both the phone and the date recognizer
\* accept and a value both the country and the company recognizer accept.
C2_Witness ==
    /\ Classified
    /\ RowsOf(pred.result.sample, PhoneKinds \cap DateKinds) = 1
    /\ RowsOf(pred.result.sample, CountryKinds \cap CompanyKinds) = 1
    /\ pred.result.scores["Phone Number"] = 1
    /\ pred.result.scores["Country"] = 1
    /\ pred.result.scores["Date"] = 0

LabelIndex(l) == CHOOSE i \in 1..Len(LABELS) : LABELS[i] = l

\* The returned label has the largest count, comes first among the labels that
\* share it, and the confidence is that count over the sample size.
ArgMaxRule ==
    LET scores == pred.result.scores
        label  == pred.result.classification
    IN /\ label \in LabelSet
       /\ \A l \in LabelSet : scores[l] <= scores[label]
       /\ \A i \in 1..(LabelIndex(label) - 1) : scores[LABELS[i]] < scores[label]
       /\ pred.result.confidence = Frac(scores[label], Rows(pred.result.sample))

\* C3 as stated: for any column the returned label is the label with the
\* largest count, the earliest of Phone Number, Company Name, Country, Date,
\* Other on a tie, with that count over the sample size as confidence.
C3_ArgMaxAnyColumn == Classified => ArgMaxRule

\* C3 as amended: the rule holds for a column with at least one non-missing
\* value (five phone values of seven give ("Phone Number", 5/7)); a column
\* with none returns ("Other", 0.0).
C3_ArgMaxNonEmptyColumn ==
    /\ Classified /\ NonMissing >= 1 => ArgMaxRule
    /\ Classified /\ NonMissing = 0 =>
         pred.result.classification = "Other" /\ pred.result.confidence = Frac(0, 1)
    /\ Classified /\ AskedCells = Scenario5 =>
         pred.result.classification = "Phone Number"
            /\ pred.result.confidence = Frac(5, 7)

\* C3 witness: Company Name and Country shared the largest count and Company
\* Name, the earlier of the two, was returned.
C3_Witness ==
    /\ Classified
    /\ pred.result.classification = "Company Name"
    /\ pred.result.scores["Country"] = pred.result.scores["Company Name"]
    /\ pred.result.scores["Date"] = pred.result.scores["Company Name"]
    /\ pred.result.confidence[1] >= 1

\* Five probabilities, each in [0,1], summing to 1.
IsDistribution(p) ==
    /\ DOMAIN p = LabelSet
    /\ \A l \in LabelSet : p[l][2] >= 1 /\ p[l][1] >= 0 /\ p[l][1] <= p[l][2]
    /\ \A l \in LabelSet : p[l][2] = p["Other"][2]
    /\ p["Phone Number"][1] + p["Company Name"][1] + p["Country"][1]
         + p["Date"][1] + p["Other"][1] = p["Other"][2]

\* C4 as stated: for any column, one with no non-missing values included, the
\* five probabilities classify computes sum to 1 and each lies in [0,1].
C4_DistributionAnyColumn == Classified => IsDistribution(pred.result.probabilities)

\* C4 as amended: for a column with at least one non-missing value the five
\* probabilities sum to 1, each in [0,1], the counts summing to the sample
\* size; for a column with none classify computes no probabilities and returns
\* ("Other", 0.0).
C4_DistributionNonEmptyColumn ==
    /\ Classified /\ NonMissing >= 1 =>
         /\ IsDistribution(pred.result.probabilities)
         /\ pred.result.probabilities["Other"][2] = Rows(pred.result.sample)
         /\ \A l \in LabelSet :
              pred.result.probabilities[l][1] = pred.result.scores[l]
    /\ Classified /\ NonMissing = 0 =>
         /\ pred.result.probabilities = NoProbabilities
         /\ pred.result.classification = "Other"
         /\ pred.result.confidence = Frac(0, 1)

\* C4 witness: a sampled column whose values fell under three labels, Other
\* among them.
C4_Witness ==
    /\ Classified
    /\ NonMissing > SAMPLE_CAP
    /\ pred.result.scores["Other"] >= 1
    /\ Cardinality({l \in LabelSet : pred.result.scores[l] >= 1}) = 3

\* C5: missing values are left out before sampling; with n non-missing values
\* min(1000, n) values are scored, all n in original order when n <= 1000 and
\* exactly 1000 of them when n > 1000; n = 0 gives ("Other", 0.0).
C5_SampleSize ==
    Classified =>
        LET sample == pred.result.sample
            n == NonMissing
        IN /\ RowsOf(sample, {MISSING}) = 0
           /\ Rows(sample) = IF n <= 1000 THEN n ELSE 1000
           /\ n <= 1000 => sample = SelectSeq(AskedCells, LAMBDA r : r.kind # MISSING)
           /\ \A k \in AllKinds : RowsOf(sample, {k}) <= RowsOf(AskedCells, {k})
           /\ n = 0 => /\ pred.result.classification = "Other"
                       /\ pred.result.confidence = Frac(0, 1)

\* C5 witness: a column with missing cells and more than 1000 non-missing
\* values was classified from 1000 of them.
C5_Witness ==
    /\ Classified
    /\ RowsOf(AskedCells, {MISSING}) >= 1
    /\ NonMissing = 1002
    /\ Rows(pred.result.sample) = 1000
    /\ draws[pred.column] # NoDraw

\* The kinds of cell the claim's date rule accepts: with a matching pattern
\* those whose strict parse returns, without one those whose fuzzy parse
\* returns.
ClaimedDateKinds ==
    {k \in AllKinds \ {MISSING} :
        LET c == Features(k) IN
        c.length > 0 /\ (IF c.date_pat THEN c.strict ELSE c.fuzzy)}

\* C15: a value that matches a date pattern is a date only when its strict
\* parse succeeds, the fuzzy parse being tried only for values that match no
\* pattern: the values counted as Date are those the phone recognizer
\* refuses and this rule accepts.
C15_FuzzyOnlyWithoutPattern ==
    Classified /\ NonMissing > 0 =>
        pred.result.scores["Date"] =
            RowsOf(pred.result.sample, ClaimedDateKinds \ PhoneKinds)

-----------------------------------------------------------------------------
(* Orchestrator: properties *)

Ran == orch.phase = "done" /\ ~Empty(df)

\* The classification of the i-th column in the run.
ResultOf(i) == classify_column(df, df[i].name, draws[df[i].name])

\* The column of the given label with the highest confidence, the first in
\* column order among those that share it; None when no column has the label.
Chosen(label) ==
    LET S == {i \in 1..Len(df) : ResultOf(i).classification = label}
    IN IF S = {} THEN NONE
       ELSE df[CHOOSE i \in S :
                 \A j \in S :
                    /\ ~FracLess(ResultOf(i).confidence, ResultOf(j).confidence)
                    /\ j < i => FracLess(ResultOf(j).confidence, ResultOf(i).confidence)].name

\* The columns the claim puts behind the parsed fields: every input column
\* but the selected ones, in input order, with its own values.
Remaining(selected) ==
    SelectSeq(Copy(df), LAMBDA c : c.name \notin selected)

ExpectedOutput(phone_column, company_column) ==
    (IF phone_column # NONE
     THEN <<OutColumn("PhoneNumber", Original(phone_column)),
            OutColumn("Country", Derived("phone_countries", phone_column)),
            OutColumn("Number", Derived("phone_numbers", phone_column))>>
     ELSE <<>>)
    \o (IF company_column # NONE
        THEN <<OutColumn("CompanyName", Original(company_column)),
               OutColumn("Name", Derived("company_names", company_column)),
               OutColumn("Legal", Derived("company_legals", company_column))>>
        ELSE <<>>)
    \o Remaining({phone_column, company_column})

\* C9: for any input table the output lists PhoneNumber, Country, Number (when
\* a phone column was selected), then CompanyName, Name, Legal (when a company
\* column was selected), then every remaining input column once, in input
\* order, with its own name and values.
C9_OutputLayout ==
    Ran =>
        /\ orch.run.written
        /\ orch.run.output =
             ExpectedOutput(orch.run.phone_column, orch.run.company_column)

\* C10: the phone (company) column is the column labelled Phone Number
\* (Company Name) with the highest confidence, the first in column order on a
\* tie, and no column is selected for a label that no column received.
C10_SelectsHighestConfidenceFirst ==
    /\ Ran => /\ orch.run.phone_column = Chosen("Phone Number")
              /\ orch.run.company_column = Chosen("Company Name")
    /\ orch.phase = "done" /\ Empty(df) =>
          orch.run.phone_column = NONE /\ orch.run.company_column = NONE

\* C10 witness: of three phone columns the second and third shared the
\* highest confidence, above the first, and the second was selected.
C10_Witness ==
    /\ Ran
    /\ Len(df) = 3
    /\ \A i \in 1..3 : ResultOf(i).classification = "Phone Number"
    /\ FracLess(ResultOf(1).confidence, ResultOf(2).confidence)
    /\ ~FracLess(ResultOf(2).confidence, ResultOf(3).confidence)
    /\ ~FracLess(ResultOf(3).confidence, ResultOf(2).confidence)
    /\ orch.run.phone_column = df[2].name
    /\ orch.run.company_column = NONE

-----------------------------------------------------------------------------
(* Construction: properties *)

\* What the claim has a loaded set be: the lines of its own file when the
\* file can be read, the built-in default set otherwise.
Recovered(f, default) == IF f.present /\ f.readable THEN f.lines ELSE default

\* C13: with a reference file missing or unreadable, neither constructor
\* fails: the affected set is the built-in default set and the other set
\* holds the lines of its own file.
C13_MissingOrUnreadableFileRecovered ==
    /\ built.classifier # "no" =>
          /\ built.classifier = "ok"
          /\ countries = Recovered(files.countries, DEFAULT_COUNTRIES)
          /\ legal_suffixes = Recovered(files.legal, CLASSIFIER_DEFAULT_SUFFIXES)
    /\ built.company_parser # "no" =>
          /\ built.company_parser = "ok"
          /\ cp_legal_suffixes = Recovered(files.legal, PARSER_DEFAULT_SUFFIXES)

\* C16: in every start-up configuration the legal suffixes of the
\* company-name recognizer are those of the company decomposer.
C16_SingleLegalSuffixSet ==
    built = Built("ok", "ok") => legal_suffixes = cp_legal_suffixes

-----------------------------------------------------------------------------
(* Entry points: properties *)

Predicted == pred.phase \in {"done", "twice"}

\* C11: classifying a column name the table lacks fails with the
\* column-not-found error, which reaches the caller (exit status 1 and
\* nothing printed in predict.py, no success in the server); no label is
\* returned, also for a table without rows.
C11_AbsentColumnFails ==
    Predicted /\ pred.column \notin ColumnNames(df) =>
        /\ ~pred.success
        /\ pred.printed = ""
        /\ pred.result.raised
        /\ pred.result.classification \notin LabelSet
        /\ Len(df) > 0 => pred.error = "Column not found in dataframe"

\* C11 witness: predict.py was asked for a column that a header-only table
\* lacks, and failed.
C11_Witness ==
    /\ pred.phase = "done"
    /\ pred.entry = "predict.py"
    /\ Len(df) > 0
    /\ Empty(df)
    /\ pred.column \notin ColumnNames(df)
    /\ ~pred.success

\* C12: on an empty input table (no columns, or columns and no rows) every
\* entry point fails: the orchestrator reports an error and writes no
\* output, the classification entry points print no label and report no
\* success.
C12_EmptyInputFails ==
    Empty(df) =>
        /\ orch.phase = "done" =>
              ~orch.ok /\ ~orch.run.written /\ orch.run.error # ""
        /\ Predicted => ~pred.success /\ pred.printed = ""

\* C14: no call changes the reference sets or the input table, and a
\* column classified twice gets the same result both times.
C14_CallsLeaveReferenceDataAndTable ==
    [][/\ countries' = countries
       /\ legal_suffixes' = legal_suffixes
       /\ cp_legal_suffixes' = cp_legal_suffixes
       /\ df' = df
       /\ pred'.phase = "twice" => pred'.again = pred'.result]_vars

\* C14 witness: a column of more than SAMPLE_CAP values, hence sampled, was
\* classified twice with the same result.
C14_Witness ==
    /\ pred.phase = "twice"
    /\ pred.success
    /\ Rows(dropna(ColumnCells(df, pred.column))) > SAMPLE_CAP
    /\ pred.again = pred.result
    /\ countries = DEFAULT_COUNTRIES

=============================================================================
